---------------------------- MODULE Spec2Model ----------------------------
(***************************************************************************)
(* A model of refnx/reduce/parabolic_motion.py: the parabola of an object  *)
(* in free flight, its vertical displacement, its elevation, the inverse   *)
(* solve for the launch angle and the parabola/line intersection.          *)
(*                                                                         *)
(* The source computes in IEEE-754 doubles.  The model computes in signed  *)
(* decimal fixed point with FracLimbs base-10^4 fraction limbs and an      *)
(* unbounded integer part, together with the IEEE special values inf and   *)
(* nan, which is what a division by zero produces in numpy.  Every         *)
(* arithmetic result is truncated towards zero to a multiple of Ulp.       *)
(***************************************************************************)
EXTENDS Integers, Sequences, FiniteSets, TLC

(***************************************************************************)
(* TLC's statistics keep one counter per expression and per path of        *)
(* operator applications leading to it, which is more than fits memory     *)
(* for arithmetic nested this deep.  The operators of the model are        *)
(* therefore applied through the one recursive operator Call: F(x) is      *)
(* Call("F", << x >>), which is FImpl(x), the definition of F.             *)
(***************************************************************************)
RECURSIVE Call(_, _)

BAdd(a, b) == Call("BAdd", << a, b >>)

BSub(a, b) == Call("BSub", << a, b >>)

BMulSmall(a, k) == Call("BMulSmall", << a, k >>)

BMul(a, b) == Call("BMul", << a, b >>)

BDiv(a, b) == Call("BDiv", << a, b >>)

FAdd(x, y) == Call("FAdd", << x, y >>)

FMul(x, y) == Call("FMul", << x, y >>)

FDiv(x, y) == Call("FDiv", << x, y >>)

FDivInt(x, n) == Call("FDivInt", << x, n >>)

SinR(r) == Call("SinR", << r >>)

CosR(r) == Call("CosR", << r >>)

ReducePi(x) == Call("ReducePi", << x >>)

Radians(x) == Call("Radians", << x >>)

Degrees(x) == Call("Degrees", << x >>)

Cos(x) == Call("Cos", << x >>)

Tan(x) == Call("Tan", << x >>)

ArcTanStep(y, x) == Call("ArcTanStep", << y, x >>)

ArcTan01(x) == Call("ArcTan01", << x >>)

ArcTan(x) == Call("ArcTan", << x >>)

BSqrt(m) == Call("BSqrt", << m >>)

FSqrt(x) == Call("FSqrt", << x >>)

Polyder(c) == Call("Polyder", << c >>)

parabola_eqn(initial_trajectory, speed) ==
  Call("parabola_eqn", << initial_trajectory, speed >>)

y_deflection(initial_trajectory, flight_length, speed) ==
  Call("y_deflection", << initial_trajectory, flight_length, speed >>)

elevation(initial_trajectory, flight_length, speed) ==
  Call("elevation", << initial_trajectory, flight_length, speed >>)

SAdd(x, y) == Call("SAdd", << x, y >>)

SSub(x, y) == Call("SSub", << x, y >>)

SMul(x, y) == Call("SMul", << x, y >>)

SSqrt(z) == Call("SSqrt", << z >>)

Eigvals2(p, q) == Call("Eigvals2", << p, q >>)

Polyroots(coef) == Call("Polyroots", << coef >>)

NpMax(r) == Call("NpMax", << r >>)

parabola_line_intersection_point(initial_trajectory, speed, theta, flight_length, omega) ==
  Call("parabola_line_intersection_point", << initial_trajectory, speed, theta, flight_length, omega >>)

SecantNext(p0, q0, p1, q1) == Call("SecantNext", << p0, q0, p1, q1 >>)

traj(vertical_deflection_vertex, trajectory, flight_length, speed) ==
  Call("traj", << vertical_deflection_vertex, trajectory, flight_length, speed >>)

newton_start(vertical_deflection_vertex, flight_length, speed) ==
  Call("newton_start", << vertical_deflection_vertex, flight_length, speed >>)

newton_iter(l, flight_length, speed) ==
  Call("newton_iter", << l, flight_length, speed >>)

find_trajectory(theta, flight_length, speed) ==
  Call("find_trajectory", << theta, flight_length, speed >>)

(***************************************************************************)
(* Natural numbers of any size: sequences of limbs, least significant      *)
(* first, no leading zero limb; << >> is zero.                             *)
(***************************************************************************)
Base == 100 * 100

FracLimbs == 3

SetMax(S) == CHOOSE x \in S : \A y \in S : y <= x

BLimb(a, i) == IF i >= 1 /\ i <= Len(a) THEN a[i] ELSE 0

BMaxLen(a, b) == IF Len(a) >= Len(b) THEN Len(a) ELSE Len(b)

\* the limbs g[1..n] without their leading zero limbs.  SubSeq makes a tuple
\* of the function g, whose limbs are then computed once.
BTrim(g, n) ==
  LET f  == SubSeq(g, 1, n)
      nz == {i \in 1..n : f[i] # 0}
  IN  IF nz = {} THEN << >> ELSE SubSeq(f, 1, SetMax(nz))

\* the limbs lo..hi of a + b (sg = 1) or a - b (sg = -1), continuing from the
\* limbs h.q below them and the carry or borrow h.c.  The range is halved and
\* the lower half is evaluated first (a tuple's elements are evaluated in
\* order), which keeps TLC's evaluation stack shallow.
RECURSIVE BAddRun(_, _, _, _, _, _)
BAddRun(h, a, b, sg, lo, hi) ==
  IF lo = hi
  THEN LET t == BLimb(a, lo) + sg * BLimb(b, lo) + h.c
       IN  [q |-> Append(h.q, t % Base), c |-> IF t >= Base THEN 1 ELSE IF t < 0 THEN -1 ELSE 0]
  ELSE LET mid == (lo + hi) \div 2
           m   == BAddRun(h, a, b, sg, lo, mid)
       IN  << m, BAddRun(m, a, b, sg, mid + 1, hi) >>[2]

\* a + b
BAddImpl(a, b) ==
  LET n == BMaxLen(a, b) + 1
  IN  BTrim(BAddRun([q |-> << >>, c |-> 0], a, b, 1, 1, n).q, n)

\* a - b for a >= b
BSubImpl(a, b) ==
  IF Len(a) = 0 THEN << >>
  ELSE BTrim(BAddRun([q |-> << >>, c |-> 0], a, b, -1, 1, Len(a)).q, Len(a))

\* -1, 0, 1 as a < b, a = b, a > b
BCmp(a, b) ==
  IF Len(a) > Len(b) THEN 1
  ELSE IF Len(a) < Len(b) THEN -1
  ELSE LET df == {i \in 1..Len(a) : a[i] # b[i]}
       IN  IF df = {} THEN 0
           ELSE IF a[SetMax(df)] > b[SetMax(df)] THEN 1 ELSE -1

\* a * k for 0 <= k < Base
BMulSmallImpl(a, k) ==
  BAdd([i \in 1..Len(a) |-> (a[i] * k) % Base],
       [i \in 1..(Len(a) + 1) |-> IF i = 1 THEN 0 ELSE (a[i - 1] * k) \div Base])

\* the sum of a[i] * b[k + 1 - i] for i in lo..hi, halving the range
RECURSIVE BColSum(_, _, _, _, _)
BColSum(a, b, k, lo, hi) ==
  IF lo > hi THEN 0
  ELSE IF lo = hi THEN a[lo] * BLimb(b, k + 1 - lo)
  ELSE BColSum(a, b, k, lo, (lo + hi) \div 2)
       + BColSum(a, b, k, (lo + hi) \div 2 + 1, hi)

\* a * b: column sums (each below 2^31 for operands of up to 21 limbs),
\* split into three limbs each and added up
BMulImpl(a, b) ==
  LET n    == Len(a) + Len(b)
      cols == SubSeq([k \in 1..n |->
                        BColSum(a, b, k, 1, IF k < Len(a) THEN k ELSE Len(a))],
                     1, n)
  IN  BAdd(BAdd([k \in 1..n |-> cols[k] % Base],
                [k \in 1..(n + 1) |->
                    IF k = 1 THEN 0 ELSE (cols[k - 1] \div Base) % Base]),
           [k \in 1..(n + 2) |->
               IF k <= 2 THEN 0 ELSE cols[k - 2] \div (Base * Base)])

\* a * Base^n
BShl(a, n) ==
  IF Len(a) = 0 THEN << >>
  ELSE SubSeq([i \in 1..(Len(a) + n) |-> IF i <= n THEN 0 ELSE a[i - n]],
              1, Len(a) + n)

\* a \div Base^n
BShr(a, n) ==
  IF Len(a) <= n THEN << >> ELSE SubSeq(a, n + 1, Len(a))

RECURSIVE BFixDigit(_, _, _)
BFixDigit(cur, b, q) ==
  IF q > 0 /\ BCmp(BMulSmall(b, q), cur) > 0 THEN BFixDigit(cur, b, q - 1) ELSE q

\* cur \div b for cur < b * Base and b with its top limb >= Base \div 2
BQuotDigit(cur, b) ==
  LET n   == Len(b)
      est == (BLimb(cur, n + 1) * Base + BLimb(cur, n)) \div b[n]
  IN  BFixDigit(cur, b, IF est > Base - 1 THEN Base - 1 ELSE est)

\* one step of the long division: the quotient and remainder h of the limbs
\* above, and the next limb x of the dividend
BDivStep(h, x, b) ==
  IF Len(h.r) = 0 /\ x = 0 THEN [q |-> << 0 >> \o h.q, r |-> << >>]
  ELSE LET cur == BTrim(<< x >> \o h.r, Len(h.r) + 1)
           qd  == BQuotDigit(cur, b)
       IN  [q |-> << qd >> \o h.q, r |-> BSub(cur, BMulSmall(b, qd))]

\* the long division of the limbs a[hi] down to a[lo], continuing from h.  The
\* range is halved and the upper half is evaluated first (a tuple's elements
\* are evaluated in order), which keeps TLC's evaluation stack shallow.
RECURSIVE BDivRun(_, _, _, _, _)
BDivRun(h, a, b, hi, lo) ==
  IF hi = lo THEN BDivStep(h, a[hi], b)
  ELSE LET mid == (hi + lo + 1) \div 2
           m   == BDivRun(h, a, b, hi, mid)
       IN  << m, BDivRun(m, a, b, mid - 1, lo) >>[2]

\* division by one limb: the running remainder fits a native integer
RECURSIVE BDivSmallRun(_, _, _, _, _)
BDivSmallRun(h, a, k, hi, lo) ==
  IF hi = lo
  THEN LET cur == h.r * Base + a[hi]
       IN  [q |-> << cur \div k >> \o h.q, r |-> cur % k]
  ELSE LET mid == (hi + lo + 1) \div 2
           m   == BDivSmallRun(h, a, k, hi, mid)
       IN  << m, BDivSmallRun(m, a, k, mid - 1, lo) >>[2]

BDivSmall(a, k) ==
  IF Len(a) = 0 THEN << >>
  ELSE LET q == BDivSmallRun([q |-> << >>, r |-> 0], a, k, Len(a), 1).q
       IN  BTrim(q, Len(q))

\* a \div b for b > 0 (Knuth's algorithm D: scale so that b's top limb is large)
BDivImpl(a, b) ==
  IF Len(b) = 1 THEN BDivSmall(a, b[1])
  ELSE IF Len(a) = 0 THEN << >>
  ELSE LET d  == Base \div (b[Len(b)] + 1)
           ad == BMulSmall(a, d)
           bd == BMulSmall(b, d)
           q  == BDivRun([q |-> << >>, r |-> << >>], ad, bd, Len(ad), 1).q
       IN  << ad, bd, BTrim(q, Len(q)) >>[3]

\* the limbs of a native integer n >= 0
BFromInt(n) ==
  BTrim(<< n % Base, (n \div Base) % Base, n \div (Base * Base) >>, 3)

(***************************************************************************)
(* Floating-point values: a finite number s * m * Base^(-FracLimbs), or    *)
(* one of the IEEE special values.                                         *)
(***************************************************************************)
Num(s, m) == [k |-> "num", s |-> IF Len(m) = 0 THEN 1 ELSE s, m |-> m]

NaN == [k |-> "nan", s |-> 1, m |-> << >>]

Inf(s) == [k |-> "inf", s |-> s, m |-> << >>]

Zero == Num(1, << >>)

\* the smallest positive number
Ulp == Num(1, << 1 >>)

IsNum(x) == x.k = "num"

IsZero(x) == x.k = "num" /\ Len(x.m) = 0

\* the integer n, |n| < 2^31
FInt(n) == Num(IF n < 0 THEN -1 ELSE 1, BShl(BFromInt(IF n < 0 THEN -n ELSE n), FracLimbs))

FNeg(x) ==
  IF x.k = "nan" THEN NaN
  ELSE IF x.k = "inf" THEN Inf(-x.s)
  ELSE Num(-x.s, x.m)

FAbs(x) == IF x.k = "nan" THEN NaN ELSE [x EXCEPT !.s = 1]

FAddImpl(x, y) ==
  IF x.k = "nan" \/ y.k = "nan" THEN NaN
  ELSE IF x.k = "inf" THEN (IF y.k = "inf" /\ y.s # x.s THEN NaN ELSE x)
  ELSE IF y.k = "inf" THEN y
  ELSE IF x.s = y.s THEN Num(x.s, BAdd(x.m, y.m))
  ELSE IF BCmp(x.m, y.m) >= 0 THEN Num(x.s, BSub(x.m, y.m))
  ELSE Num(y.s, BSub(y.m, x.m))

FSub(x, y) == FAdd(x, FNeg(y))

FMulImpl(x, y) ==
  IF x.k = "nan" \/ y.k = "nan" THEN NaN
  ELSE IF x.k = "inf" \/ y.k = "inf"
  THEN (IF IsZero(x) \/ IsZero(y) THEN NaN ELSE Inf(x.s * y.s))
  ELSE Num(x.s * y.s, BShr(BMul(x.m, y.m), FracLimbs))

\* x / y as numpy divides doubles: a division by zero gives inf or nan
FDivImpl(x, y) ==
  IF x.k = "nan" \/ y.k = "nan" THEN NaN
  ELSE IF x.k = "inf" THEN (IF y.k = "inf" THEN NaN ELSE Inf(x.s * y.s))
  ELSE IF y.k = "inf" THEN Zero
  ELSE IF IsZero(y) THEN (IF IsZero(x) THEN NaN ELSE Inf(x.s))
  ELSE Num(x.s * y.s, BDiv(BShl(x.m, FracLimbs), y.m))

\* x / n for a native integer 0 < n < Base
FDivIntImpl(x, n) == IF x.k = "num" THEN Num(x.s, BDiv(x.m, << n >>)) ELSE x

\* the decimal literal n / d
FRat(n, d) == FDiv(FInt(n), FInt(d))

\* -1, 0, 1 as x < y, x = y, x > y, for x and y not nan
FCmp(x, y) ==
  IF x.k = "inf" THEN (IF y.k = "inf" /\ y.s = x.s THEN 0 ELSE x.s)
  ELSE IF y.k = "inf" THEN -y.s
  ELSE IF x.s # y.s THEN x.s
  ELSE x.s * BCmp(x.m, y.m)

FLt(x, y) == x.k # "nan" /\ y.k # "nan" /\ FCmp(x, y) < 0

FLe(x, y) == x.k # "nan" /\ y.k # "nan" /\ FCmp(x, y) <= 0

FEq(x, y) == x.k # "nan" /\ y.k # "nan" /\ FCmp(x, y) = 0

(***************************************************************************)
(* The elementary functions numpy applies: radians, degrees, cos, tan,     *)
(* arctan and sqrt.                                                        *)
(***************************************************************************)
\* pi = 3.1415 9265 3589 7932 3846 2643..., most significant limb first
PiLimbs == << 3, 1415, 9265, 3589, 7932, 3846, 2643 >>

Pi == Num(1, SubSeq([i \in 1..(FracLimbs + 1) |-> PiLimbs[FracLimbs + 2 - i]],
                    1, FracLimbs + 1))

HalfPi == FDivInt(Pi, 2)

\* np.radians and np.degrees
RadiansImpl(x) == FDivInt(FMul(x, Pi), 180)

DegreesImpl(x) == FDiv(FMul(x, FInt(180)), Pi)

\* acc + term - term*x2/((n+1)(n+2)) + ..., until the terms vanish
RECURSIVE TaylorSum(_, _, _, _)
TaylorSum(term, acc, n, x2) ==
  IF term.k # "num" \/ acc.k # "num" THEN NaN
  ELSE IF IsZero(term) THEN acc
  ELSE TaylorSum(FNeg(FDivInt(FMul(term, x2), (n + 1) * (n + 2))),
                 FAdd(acc, term), n + 2, x2)

\* sin and cos of r, |r| <= pi/2
SinRImpl(r) == TaylorSum(r, Zero, 1, FMul(r, r))

CosRImpl(r) == TaylorSum(FInt(1), Zero, 0, FMul(r, r))

\* x = n*pi + r with |r| <= pi/2: r, and whether n is odd
ReducePiImpl(x) ==
  IF x.k # "num" THEN [r |-> NaN, odd |-> FALSE]
  ELSE IF FLe(FAbs(x), HalfPi) THEN [r |-> x, odd |-> FALSE]
  ELSE LET n == BShr(FAdd(FDiv(FAbs(x), Pi), FRat(1, 2)).m, FracLimbs)
           r == FSub(FAbs(x), Num(1, BMul(n, Pi.m)))
       IN  [r |-> IF x.s < 0 THEN FNeg(r) ELSE r, odd |-> BLimb(n, 1) % 2 = 1]

CosImpl(x) ==
  LET rd == ReducePi(x)
      c  == CosR(rd.r)
  IN  IF rd.odd THEN FNeg(c) ELSE c

TanImpl(x) ==
  LET rd == ReducePi(x)
      s  == SinR(rd.r)
      c  == CosR(rd.r)
  IN  << rd, s, c, FDiv(s, c) >>[4]

\* one Newton step towards the y with tan(y) = x
ArcTanStepImpl(y, x) ==
  LET s == SinR(y)
      c == CosR(y)
  IN  << s, c, FSub(y, FMul(c, FSub(s, FMul(x, c)))) >>[3]

\* arctan(x) for 0 <= x <= 1: Newton steps from x/(1 + 0.28125 x^2), which is
\* within 0.005 of it; each step squares the error
ArcTan01Impl(x) ==
  LET y0 == FDiv(x, FAdd(FInt(1), FMul(FRat(28125, 100000), FMul(x, x))))
      y1 == ArcTanStep(y0, x)
      y2 == ArcTanStep(y1, x)
      y3 == ArcTanStep(y2, x)
  IN  << y0, y1, y2, y3 >>[4]

ArcTanImpl(x) ==
  IF x.k = "nan" THEN NaN
  ELSE IF x.k = "inf" THEN Num(x.s, HalfPi.m)
  ELSE LET a == FAbs(x)
           y == IF FLe(a, FInt(1)) THEN ArcTan01(a)
                ELSE FSub(HalfPi, ArcTan01(FDiv(FInt(1), a)))
       IN  Num(x.s, y.m)

\* the integer square root of a native integer 0 <= t < Base^2
ISqrt(t) == CHOOSE r \in 0..Base : r * r <= t /\ (r + 1) * (r + 1) > t

\* Heron's iteration downwards from s >= sqrt(m), to the integer square root
RECURSIVE BSqrtIter(_, _)
BSqrtIter(m, s) ==
  LET t == BDiv(BAdd(s, BDiv(m, s)), << 2 >>)
  IN  IF BCmp(t, s) >= 0 THEN s ELSE BSqrtIter(m, t)

BSqrtImpl(m) ==
  IF Len(m) = 0 THEN << >>
  ELSE LET n   == Len(m)
           top == IF n % 2 = 1 THEN m[n] ELSE m[n] * Base + m[n - 1]
       IN  BSqrtIter(m, BShl(BFromInt(ISqrt(top) + 1), (n - 1) \div 2))

\* np.sqrt of a real: nan for a negative number
FSqrtImpl(x) ==
  IF x.k = "nan" THEN NaN
  ELSE IF IsZero(x) THEN Zero
  ELSE IF x.s < 0 THEN NaN
  ELSE IF x.k = "inf" THEN x
  ELSE Num(1, BSqrt(BShl(x.m, FracLimbs)))


(***************************************************************************)
(* parabolic_motion.py: the pure functions.                                *)
(***************************************************************************)
\* scipy.constants.g, the standard acceleration of gravity: 9.80665 m/s^2
G == FRat(980665, 100000)

\* polyval with the coefficients taken in descending order
RECURSIVE PolyvalDescending(_, _)
PolyvalDescending(x, c) ==
  IF Len(c) = 0 THEN Zero
  ELSE IF Len(c) = 1 THEN c[1]
  ELSE LET lo == PolyvalDescending(x, SubSeq(c, 1, Len(c) - 1))
       IN  << lo, FAdd(c[Len(c)], FMul(lo, x)) >>[2]

\* poly.polyval(x, c): Horner's rule over the coefficients in ascending order
RECURSIVE Polyval(_, _)
Polyval(x, c) ==
  IF Len(c) = 0 THEN Zero
  ELSE IF Len(c) = 1 THEN c[1]
  ELSE LET hi == Polyval(x, Tail(c))
       IN  << hi, FAdd(c[1], FMul(hi, x)) >>[2]

\* polyder with the sign of the derivative lost
PolyderNegated(c) ==
  IF Len(c) <= 1 THEN << Zero >>
  ELSE SubSeq([i \in 1..(Len(c) - 1) |-> FNeg(FMul(FInt(i), c[i + 1]))], 1, Len(c) - 1)

\* poly.polyder(c): the coefficients of the derivative
PolyderImpl(c) ==
  IF Len(c) <= 1 THEN << Zero >>
  ELSE SubSeq([i \in 1..(Len(c) - 1) |-> FMul(FInt(i), c[i + 1])], 1, Len(c) - 1)

\* parabola_eqn with the quadratic term -g / (speed * cos)^2, not halved
parabola_eqn_unhalved(initial_trajectory, speed) ==
  LET traj_rad == Radians(initial_trajectory)
      vx       == FMul(speed, Cos(traj_rad))
      c1       == Tan(traj_rad)
      c2       == FDiv(FNeg(G), FMul(vx, vx))
  IN  << traj_rad, c1, c2, << Zero, c1, c2 >> >>[4]

parabola_eqnImpl(initial_trajectory, speed) ==
  LET traj_rad == Radians(initial_trajectory)
      vx       == FMul(speed, Cos(traj_rad))
      c1       == Tan(traj_rad)
      c2       == FDiv(FDivInt(FNeg(G), 2), FMul(vx, vx))
  IN  << traj_rad, c1, c2, << Zero, c1, c2 >> >>[4]

y_deflectionImpl(initial_trajectory, flight_length, speed) ==
  LET eqn == parabola_eqn(initial_trajectory, speed)
  IN  << eqn, Polyval(flight_length, eqn) >>[2]

\* elevation from the parabola itself, not from its derivative
elevation_of_path(initial_trajectory, flight_length, speed) ==
  LET eqn  == parabola_eqn(initial_trajectory, speed)
      m    == Polyval(flight_length, eqn)
      a    == ArcTan(m)
  IN  << eqn, m, a, Degrees(a) >>[4]

elevationImpl(initial_trajectory, flight_length, speed) ==
  LET eqn  == parabola_eqn(initial_trajectory, speed)
      dydx == Polyder(eqn)
      m    == Polyval(flight_length, dydx)
      a    == ArcTan(m)
  IN  << eqn, dydx, m, a, Degrees(a) >>[5]


(***************************************************************************)
(* Complex values: numpy's complex128, which polyroots returns when the    *)
(* companion matrix has non-real eigenvalues.  A scalar is a float or a    *)
(* complex value; arithmetic on a complex operand gives a complex result.  *)
(***************************************************************************)
Complex(re, im) == [k |-> "complex", re |-> re, im |-> im]

IsComplex(z) == z.k = "complex"

CRe(z) == IF IsComplex(z) THEN z.re ELSE z

CIm(z) == IF IsComplex(z) THEN z.im ELSE Zero

SAddImpl(x, y) ==
  IF IsComplex(x) \/ IsComplex(y)
  THEN Complex(FAdd(CRe(x), CRe(y)), FAdd(CIm(x), CIm(y)))
  ELSE FAdd(x, y)

SSubImpl(x, y) ==
  IF IsComplex(x) \/ IsComplex(y)
  THEN Complex(FSub(CRe(x), CRe(y)), FSub(CIm(x), CIm(y)))
  ELSE FSub(x, y)

SMulImpl(x, y) ==
  IF IsComplex(x) \/ IsComplex(y)
  THEN Complex(FSub(FMul(CRe(x), CRe(y)), FMul(CIm(x), CIm(y))),
               FAdd(FMul(CRe(x), CIm(y)), FMul(CIm(x), CRe(y))))
  ELSE FMul(x, y)

\* np.sqrt: the principal square root of a complex value, nan for a negative
\* float
SSqrtImpl(z) ==
  IF IsComplex(z)
  THEN LET r  == FSqrt(FAdd(FMul(z.re, z.re), FMul(z.im, z.im)))
           re == FSqrt(FDivInt(FAdd(r, z.re), 2))
           im == FSqrt(FDivInt(FSub(r, z.re), 2))
       IN  << r, re, Complex(re, IF z.im.s < 0 THEN FNeg(im) ELSE im) >>[3]
  ELSE FSqrt(z)

(***************************************************************************)
(* poly.polyroots and np.max.  An outcome is a returned value or a raised  *)
(* exception.                                                              *)
(***************************************************************************)
Value(v) == [status |-> "value", val |-> v, err |-> "none"]

Raise(e) == [status |-> "error", val |-> << >>, err |-> e]

\* pu.as_series(trim=True): drop the trailing zero coefficients, keep one
RECURSIVE TrimSeq(_)
TrimSeq(c) ==
  IF Len(c) > 1 /\ IsZero(c[Len(c)]) THEN TrimSeq(SubSeq(c, 1, Len(c) - 1)) ELSE c

\* the roots by the quadratic formula alone, a zero product of the roots not
\* told apart
Eigvals2Formula(p, q) ==
  LET h   == FDivInt(q, 2)
      dsc == FSub(FMul(h, h), p)
      s   == FSqrt(FAbs(dsc))
      z   == IF q.s < 0 THEN FAdd(FNeg(h), s) ELSE FSub(FNeg(h), s)
  IN  IF dsc.s < 0
      THEN << dsc, s, << Complex(FNeg(h), s), Complex(FNeg(h), FNeg(s)) >> >>[3]
      ELSE << dsc, s, z, << z, FDiv(p, z) >> >>[4]

\* the eigenvalues of the companion matrix [[-q, 1], [-p, 0]] of
\* x^2 + q x + p: the larger root in magnitude first, the other from the
\* product of the roots; a conjugate pair if the discriminant is negative
Eigvals2Impl(p, q) ==
  LET h   == FDivInt(q, 2)
      dsc == FSub(FMul(h, h), p)
      s   == FSqrt(FAbs(dsc))
      z   == IF q.s < 0 THEN FAdd(FNeg(h), s) ELSE FSub(FNeg(h), s)
  IN  IF IsZero(p) THEN << Zero, FNeg(q) >>
      ELSE IF dsc.s < 0
      THEN << dsc, s, << Complex(FNeg(h), s), Complex(FNeg(h), FNeg(s)) >> >>[3]
      ELSE << dsc, s, z, << z, FDiv(p, z) >> >>[4]

PolyrootsImpl(coef) ==
  LET c == TrimSeq(coef)
  IN  IF Len(c) < 2 THEN Value(<< >>)
      ELSE IF Len(c) = 2 THEN Value(<< FNeg(FDiv(c[1], c[2])) >>)
      ELSE LET p == FDiv(c[1], c[3])
               q == FDiv(c[2], c[3])
           IN  IF ~IsNum(p) \/ ~IsNum(q) THEN Raise("LinAlgError")
               ELSE Value(Eigvals2(p, q))

\* the order of np.min
SLess(x, y) ==
  IF IsComplex(x) \/ IsComplex(y)
  THEN FLt(CRe(x), CRe(y)) \/ (FEq(CRe(x), CRe(y)) /\ FLt(CIm(x), CIm(y)))
  ELSE FLt(x, y)

\* the order np.max applies: floats by value, complex values by real part
\* and then by imaginary part; a nan wins
SGreater(x, y) ==
  IF IsComplex(x) \/ IsComplex(y)
  THEN FLt(CRe(y), CRe(x)) \/ (FEq(CRe(x), CRe(y)) /\ FLt(CIm(y), CIm(x)))
  ELSE FLt(y, x)

SIsNaN(x) == IF IsComplex(x) THEN x.re.k = "nan" \/ x.im.k = "nan" ELSE x.k = "nan"

RECURSIVE NpMaxFrom(_, _)
NpMaxFrom(best, r) ==
  IF Len(r) = 0 THEN best
  ELSE IF SIsNaN(best) THEN best
  ELSE IF SIsNaN(r[1]) \/ SGreater(r[1], best) THEN NpMaxFrom(r[1], Tail(r))
  ELSE NpMaxFrom(best, Tail(r))

\* the first root, whichever it is
NpFirst(r) == IF Len(r) = 0 THEN Raise("ValueError") ELSE Value(r[1])

NpMaxImpl(r) == IF Len(r) = 0 THEN Raise("ValueError") ELSE Value(NpMaxFrom(r[1], Tail(r)))

\* the body of parabola_line_intersection_point: its locals and its outcome
parabola_line_intersection_pointImpl(initial_trajectory, speed, theta, flight_length, omega) ==
  LET omega_rad == Radians(omega)
      theta_rad == Radians(theta)
      tan_theta == Tan(theta_rad)
      b1        == Tan(omega_rad)
      a1        == FMul(flight_length, FSub(tan_theta, b1))
      eqn       == parabola_eqn(initial_trajectory, speed)
      coef      == << FSub(eqn[1], a1), FSub(eqn[2], b1), eqn[3] >>
      roots     == Polyroots(coef)
      top       == IF roots.status = "error" THEN roots ELSE NpMax(roots.val)
      x         == top.val
      y         == SAdd(a1, SMul(x, b1))
      dx        == SSub(x, flight_length)
      dy        == SSub(y, FMul(flight_length, tan_theta))
      distance  == SAdd(SMul(dx, dx), SMul(dy, dy))
      out       == IF top.status = "error" THEN top
                   ELSE << y, distance, Value(<< x, y, SSqrt(distance) >>) >>[3]
  IN  << tan_theta, b1, a1, eqn, roots, top,
         [a1 |-> a1, b1 |-> b1, eqn |-> eqn, coef |-> coef, out |-> out] >>[7]


(***************************************************************************)
(* scipy.optimize.newton(traj, 0) as find_trajectory calls it: no          *)
(* derivative is given, so it is the secant method from x0 = 0 with the    *)
(* default tolerance and iteration budget, and disp = True (a failure to   *)
(* converge raises RuntimeError).                                          *)
(***************************************************************************)
MaxIter == 50

\* tol = 1.48e-8
Tol == FDiv(FRat(148, 100000), FInt(100000))

\* the second starting point: x0 * (1 + 1e-4) + 1e-4 for x0 = 0
SecantP1 == FRat(1, 10000)

\* np.isclose(a, b, rtol=0, atol=tol)
IsClose(a, b) ==
  IF a.k = "nan" \/ b.k = "nan" THEN FALSE
  ELSE IF a = b THEN TRUE
  ELSE IF a.k = "inf" \/ b.k = "inf" THEN FALSE
  ELSE FLe(FAbs(FSub(a, b)), Tol)

\* abs(a) > abs(b), false if either is nan
AbsGreater(a, b) == FLt(FAbs(b), FAbs(a))

\* the next secant iterate
SecantNextImpl(p0, q0, p1, q1) ==
  IF AbsGreater(q1, q0)
  THEN LET r == FDiv(q0, q1)
       IN  << r, FDiv(FAdd(FMul(FNeg(r), p1), p0), FSub(FInt(1), r)) >>[2]
  ELSE LET r == FDiv(q1, q0)
       IN  << r, FDiv(FAdd(FMul(FNeg(r), p0), p1), FSub(FInt(1), r)) >>[2]

\* traj with the deflection added, not subtracted
traj_sum(vertical_deflection_vertex, trajectory, flight_length, speed) ==
  LET y == y_deflection(trajectory, flight_length, speed)
  IN  << y, FAdd(vertical_deflection_vertex, y) >>[2]

\* traj(trajectory), the function find_trajectory hands to newton
trajImpl(vertical_deflection_vertex, trajectory, flight_length, speed) ==
  LET y == y_deflection(trajectory, flight_length, speed)
  IN  << y, FSub(vertical_deflection_vertex, y) >>[2]

(***************************************************************************)
(* The records of the state.                                               *)
(***************************************************************************)
Args(flight_length, theta, omega) ==
  [flight_length |-> flight_length, theta |-> theta, omega |-> omega]

NoArgs == Args(Zero, Zero, Zero)

NoLocals ==
  [eqn |-> << >>, a1 |-> Zero, b1 |-> Zero, coef |-> << >>,
   vertical_deflection_vertex |-> Zero,
   p0 |-> Zero, q0 |-> Zero, p1 |-> Zero, q1 |-> Zero, p |-> Zero, itr |-> 0]

NoResult == [status |-> "none", val |-> << >>, err |-> "none"]

NoCall == [fn |-> "none", args |-> NoArgs, result |-> NoResult]

\* newton before its loop: the two starting points and the function there,
\* the point with the larger |traj| second
newton_startImpl(vertical_deflection_vertex, flight_length, speed) ==
  LET q0 == traj(vertical_deflection_vertex, Zero, flight_length, speed)
      q1 == traj(vertical_deflection_vertex, SecantP1, flight_length, speed)
      sw == AbsGreater(q0, q1)
  IN  << q0, q1,
         [NoLocals EXCEPT !.vertical_deflection_vertex = vertical_deflection_vertex,
                          !.p0 = IF sw THEN SecantP1 ELSE Zero,
                          !.q0 = IF sw THEN q1 ELSE q0,
                          !.p1 = IF sw THEN Zero ELSE SecantP1,
                          !.q1 = IF sw THEN q0 ELSE q1] >>[3]

\* one iteration of newton's loop from the locals l: the locals after it, the
\* outcome if it ends the call, and where the call is then
newton_iterImpl(l, flight_length, speed) ==
  IF FEq(l.q1, l.q0)
  THEN LET mid == FDivInt(FAdd(l.p1, l.p0), 2)
       IN  [locals |-> [l EXCEPT !.p = mid],
            result |-> IF l.p1 # l.p0 THEN Raise("RuntimeError") ELSE Value(mid),
            pc |-> "done"]
  ELSE LET p == SecantNext(l.p0, l.q0, l.p1, l.q1)
       IN  IF IsClose(p, l.p1)
           THEN [locals |-> [l EXCEPT !.p = p], result |-> Value(p), pc |-> "done"]
           ELSE [locals |-> [l EXCEPT !.p = p, !.p0 = l.p1, !.q0 = l.q1, !.p1 = p,
                                      !.q1 = traj(l.vertical_deflection_vertex, p,
                                                  flight_length, speed),
                                      !.itr = l.itr + 1],
                 result |-> NoResult,
                 pc |-> "newton"]

\* find_trajectory up to newton's loop
find_trajectoryImpl(theta, flight_length, speed) ==
  newton_start(FMul(Tan(Radians(theta)), flight_length), flight_length, speed)

(***************************************************************************)
(* The operators by name.                                                  *)
(***************************************************************************)
\* the arguments x are evaluated first, then the operator is applied to them
Call(f, x) ==
  IF Len(x) = 0 THEN NaN
  ELSE CASE f = "BAdd" -> BAddImpl(x[1], x[2])
         [] f = "BSub" -> BSubImpl(x[1], x[2])
         [] f = "BMulSmall" -> BMulSmallImpl(x[1], x[2])
         [] f = "BMul" -> BMulImpl(x[1], x[2])
         [] f = "BDiv" -> BDivImpl(x[1], x[2])
         [] f = "FAdd" -> FAddImpl(x[1], x[2])
         [] f = "FMul" -> FMulImpl(x[1], x[2])
         [] f = "FDiv" -> FDivImpl(x[1], x[2])
         [] f = "FDivInt" -> FDivIntImpl(x[1], x[2])
         [] f = "SinR" -> SinRImpl(x[1])
         [] f = "CosR" -> CosRImpl(x[1])
         [] f = "ReducePi" -> ReducePiImpl(x[1])
         [] f = "Radians" -> RadiansImpl(x[1])
         [] f = "Degrees" -> DegreesImpl(x[1])
         [] f = "Cos" -> CosImpl(x[1])
         [] f = "Tan" -> TanImpl(x[1])
         [] f = "ArcTanStep" -> ArcTanStepImpl(x[1], x[2])
         [] f = "ArcTan01" -> ArcTan01Impl(x[1])
         [] f = "ArcTan" -> ArcTanImpl(x[1])
         [] f = "BSqrt" -> BSqrtImpl(x[1])
         [] f = "FSqrt" -> FSqrtImpl(x[1])
         [] f = "Polyder" -> PolyderImpl(x[1])
         [] f = "parabola_eqn" -> parabola_eqnImpl(x[1], x[2])
         [] f = "y_deflection" -> y_deflectionImpl(x[1], x[2], x[3])
         [] f = "elevation" -> elevationImpl(x[1], x[2], x[3])
         [] f = "SAdd" -> SAddImpl(x[1], x[2])
         [] f = "SSub" -> SSubImpl(x[1], x[2])
         [] f = "SMul" -> SMulImpl(x[1], x[2])
         [] f = "SSqrt" -> SSqrtImpl(x[1])
         [] f = "Eigvals2" -> Eigvals2Impl(x[1], x[2])
         [] f = "Polyroots" -> PolyrootsImpl(x[1])
         [] f = "NpMax" -> NpMaxImpl(x[1])
         [] f = "parabola_line_intersection_point" -> parabola_line_intersection_pointImpl(x[1], x[2], x[3], x[4], x[5])
         [] f = "SecantNext" -> SecantNextImpl(x[1], x[2], x[3], x[4])
         [] f = "traj" -> trajImpl(x[1], x[2], x[3], x[4])
         [] f = "newton_start" -> newton_startImpl(x[1], x[2], x[3])
         [] f = "newton_iter" -> newton_iterImpl(x[1], x[2], x[3])
         [] f = "find_trajectory" -> find_trajectoryImpl(x[1], x[2], x[3])

(***************************************************************************)
(* The state machine: a caller with a fixed beam (initial_trajectory and   *)
(* speed) calls the functions of the module, one call at a time.           *)
(***************************************************************************)
VARIABLES initial_trajectory,   \* the beam's launch angle (degrees)
          speed,                \* the beam's speed (m/s)
          pc,                   \* "idle", "newton" (inside newton) or "done"
          fn,                   \* the function called
          args,                 \* its other arguments
          locals,               \* its local variables
          result,               \* its outcome: a value or a raised exception
          prev                  \* the call before it, if this call follows one

vars == << initial_trajectory, speed, pc, fn, args, locals, result, prev >>

\* the inputs the caller draws from
Trajectories == {FInt(-5), Zero, FInt(2), FInt(5), FInt(135)}

Speeds == {Zero, FInt(100), FInt(500), FInt(1000)}

FlightLengths == {Zero, FRat(1, 1000), FRat(1, 10), FInt(2), FInt(10)}

Thetas == {Zero, FInt(1)}

Omegas == {FInt(-1), Zero, FInt(3)}

Init ==
  /\ initial_trajectory \in Trajectories
  /\ speed \in Speeds
  /\ pc = "idle"
  /\ fn = "none"
  /\ args = NoArgs
  /\ locals = NoLocals
  /\ result = NoResult
  /\ prev = NoCall

\* a call begins: from idle, or following the call that has just returned
Begin(f, a) ==
  /\ fn' = f
  /\ args' = a
  /\ prev' = IF pc = "done" THEN [fn |-> fn, args |-> args, result |-> result]
             ELSE NoCall
  /\ UNCHANGED << initial_trajectory, speed >>

\* y_deflection(initial_trajectory, flight_length, speed)
YDeflection(flight_length) ==
  /\ pc = "idle"
  /\ Begin("y_deflection", Args(flight_length, Zero, Zero))
  /\ locals' = [NoLocals EXCEPT !.eqn = parabola_eqn(initial_trajectory, speed)]
  /\ result' = Value(y_deflection(initial_trajectory, flight_length, speed))
  /\ pc' = "done"

\* elevation(initial_trajectory, flight_length, speed): a first call, or the
\* elevation further along the flight path than the call before
Elevation(flight_length) ==
  /\ \/ pc = "idle"
     \/ pc = "done" /\ fn = "elevation" /\ FLt(args.flight_length, flight_length)
  /\ Begin("elevation", Args(flight_length, Zero, Zero))
  /\ locals' = [NoLocals EXCEPT !.eqn = parabola_eqn(initial_trajectory, speed)]
  /\ result' = Value(elevation(initial_trajectory, flight_length, speed))
  /\ pc' = "done"

\* find_trajectory(theta, flight_length, speed) up to the first two function
\* evaluations of newton
FindTrajectory(theta, flight_length) ==
  /\ Begin("find_trajectory", Args(flight_length, theta, Zero))
  /\ locals' = find_trajectory(theta, flight_length, speed)
  /\ result' = NoResult
  /\ pc' = "newton"

\* the caller asks for the trajectory through a point
CallFindTrajectory(theta, flight_length) ==
  /\ pc = "idle"
  /\ FindTrajectory(theta, flight_length)

\* the caller asks for the trajectory through the point y_deflection has just
\* returned: theta = arctan(y / flight_length) in degrees
RoundTrip ==
  /\ pc = "done"
  /\ fn = "y_deflection"
  /\ ~IsZero(args.flight_length)
  /\ FindTrajectory(Degrees(ArcTan(FDiv(result.val, args.flight_length))),
                    args.flight_length)

\* one iteration of newton's loop; the value or the exception that ends it is
\* the outcome of find_trajectory
NewtonStep ==
  /\ pc = "newton"
  /\ locals.itr < MaxIter
  /\ \E r \in {newton_iter(locals, args.flight_length, speed)} :
        /\ locals' = r.locals
        /\ result' = r.result
        /\ pc' = r.pc
  /\ UNCHANGED << initial_trajectory, speed, fn, args, prev >>

\* the loop has used its budget and the last iterate is returned as it is
NewtonExhaustedSilent ==
  /\ pc = "newton"
  /\ locals.itr = MaxIter
  /\ result' = Value(locals.p1)
  /\ pc' = "done"
  /\ UNCHANGED << initial_trajectory, speed, fn, args, locals, prev >>

\* the loop has used its budget: newton raises, and find_trajectory with it
NewtonExhausted ==
  /\ pc = "newton"
  /\ locals.itr = MaxIter
  /\ result' = Raise("RuntimeError")
  /\ pc' = "done"
  /\ UNCHANGED << initial_trajectory, speed, fn, args, locals, prev >>

\* parabola_line_intersection_point(initial_trajectory, speed, theta,
\*                                  flight_length, omega)
Intersection(theta, flight_length, omega) ==
  /\ Begin("parabola_line_intersection_point", Args(flight_length, theta, omega))
  /\ \E r \in {parabola_line_intersection_point(initial_trajectory, speed, theta,
                                                flight_length, omega)} :
        /\ locals' = [NoLocals EXCEPT !.eqn = r.eqn, !.a1 = r.a1, !.b1 = r.b1,
                                      !.coef = r.coef]
        /\ result' = r.out
  /\ pc' = "done"

\* the caller asks where the beam meets a line
CallIntersectionPoint(theta, flight_length, omega) ==
  /\ pc = "idle"
  /\ Intersection(theta, flight_length, omega)

\* the caller asks where the beam meets a line through the point y_deflection
\* has just returned: theta = arctan(y / flight_length) in degrees
IntersectOnPath(omega) ==
  /\ pc = "done"
  /\ fn = "y_deflection"
  /\ ~IsZero(args.flight_length)
  /\ Intersection(Degrees(ArcTan(FDiv(result.val, args.flight_length))),
                  args.flight_length, omega)

\* the caller takes the outcome and is ready for an unrelated call
Return ==
  /\ pc = "done"
  /\ pc' = "idle"
  /\ fn' = "none"
  /\ args' = NoArgs
  /\ locals' = NoLocals
  /\ result' = NoResult
  /\ prev' = NoCall
  /\ UNCHANGED << initial_trajectory, speed >>

CallYDeflection == \E L \in FlightLengths : YDeflection(L)

CallElevation == \E L \in FlightLengths : Elevation(L)

CallTrajectory == \E th \in Thetas, L \in FlightLengths : CallFindTrajectory(th, L)

CallIntersection ==
  \E th \in Thetas, L \in FlightLengths, om \in Omegas :
     CallIntersectionPoint(th, L, om)

CallOnPath == \E om \in Omegas : IntersectOnPath(om)

Next ==
  \/ CallYDeflection
  \/ CallElevation
  \/ CallTrajectory
  \/ RoundTrip
  \/ NewtonStep
  \/ NewtonExhausted
  \/ CallIntersection
  \/ CallOnPath
  \/ Return

Spec == Init /\ [][Next]_vars

\* the callers of one function each
NextDeflection == CallYDeflection \/ Return

SpecDeflection == Init /\ [][NextDeflection]_vars

NextElevation == CallElevation \/ Return

SpecElevation == Init /\ [][NextElevation]_vars

NextTrajectory ==
  \/ CallYDeflection
  \/ CallTrajectory
  \/ RoundTrip
  \/ NewtonStep
  \/ NewtonExhausted
  \/ Return

SpecTrajectory == Init /\ [][NextTrajectory]_vars

NextIntersection ==
  \/ CallYDeflection
  \/ CallIntersection
  \/ CallOnPath
  \/ Return

SpecIntersection == Init /\ [][NextIntersection]_vars

(***************************************************************************)
(* The properties.  A call has returned when pc = "done": fn and args name *)
(* it, locals are its local variables and result is its outcome.           *)
(***************************************************************************)
Done(f) == pc = "done" /\ fn = f

PositiveSpeed == FLt(Zero, speed)

\* |a - b| <= tol, for finite a and b
Near(a, b, tol) == IsNum(a) /\ IsNum(b) /\ FLe(FAbs(FSub(a, b)), tol)

\* 1e-9 and 1e-6
Tiny == FRat(1, 1000000000)

Micro == FRat(1, 1000000)

\* C6 as stated: for all initial_trajectory and all speed,
\* y_deflection(initial_trajectory, 0, speed) == 0.
C6_AsStated ==
  Done("y_deflection") /\ IsZero(args.flight_length) => result = Value(Zero)

\* C6: for every initial_trajectory and every speed > 0,
\* y_deflection(initial_trajectory, 0, speed) is exactly 0, and the constant
\* coefficient of the parabola is 0.
C6_ThroughOrigin ==
  Done("y_deflection") /\ IsZero(args.flight_length) /\ PositiveSpeed
    => result = Value(Zero) /\ locals.eqn[1] = Zero

C6_Witness ==
  /\ Done("y_deflection") /\ IsZero(args.flight_length) /\ PositiveSpeed
  /\ initial_trajectory = FInt(5)
  /\ ~IsZero(locals.eqn[2]) /\ ~IsZero(locals.eqn[3])
  /\ result = Value(Zero)

\* tan(t) * flight_length - g * flight_length^2 / (2 * (speed * cos(t))^2)
DeflectionFormula(trajectory, flight_length, v) ==
  LET t  == Radians(trajectory)
      vx == FMul(v, Cos(t))
  IN  FSub(FMul(Tan(t), flight_length),
           FDiv(FMul(G, FMul(flight_length, flight_length)),
                FMul(FInt(2), FMul(vx, vx))))

\* -g * (flight_length / speed)^2 / 2
DropFormula(flight_length, v) ==
  LET r == FDiv(flight_length, v)
  IN  FNeg(FDivInt(FMul(G, FMul(r, r)), 2))

\* the tolerance of a comparison with y: 1e-9 + 1e-6 * |y|
DeflectionTol(y) == FAdd(Tiny, FMul(Micro, FAbs(y)))

\* what C7 states but for its example
C7_Formula ==
  LET y == DeflectionFormula(initial_trajectory, args.flight_length, speed)
      d == DropFormula(args.flight_length, speed)
  IN  /\ result.status = "value"
      /\ Near(result.val, y, DeflectionTol(y))
      /\ IsZero(initial_trajectory) /\ ~IsZero(args.flight_length)
           => FLt(result.val, Zero) /\ Near(result.val, d, DeflectionTol(d))

C7_Example ==
  initial_trajectory = Zero /\ speed = FInt(500) /\ args.flight_length = FInt(2)

\* C7 as stated: the formula, and about -1.57e-4 m for speed = 500,
\* flight_length = 2 (to the three digits given: within 5e-7).
C7_AsStated ==
  Done("y_deflection") /\ PositiveSpeed
    => /\ C7_Formula
       /\ C7_Example => Near(result.val, FRat(-157, 1000000), FRat(5, 10000000))

\* C7: for speed > 0, y_deflection equals
\* tan(t)*flight_length - g*flight_length^2 / (2*(speed*cos(t))^2); for a
\* horizontal launch and flight_length != 0 it is strictly negative and equals
\* -g*(flight_length/speed)^2/2, which is about -7.85e-5 m (not -1.57e-4 m)
\* for speed = 500, flight_length = 2.
C7_Deflection ==
  Done("y_deflection") /\ PositiveSpeed
    => /\ C7_Formula
       /\ C7_Example => Near(result.val, FRat(-785, 10000000), FRat(5, 100000000))

C7_Witness ==
  /\ Done("y_deflection") /\ C7_Example
  /\ result.status = "value" /\ FLt(result.val, Zero)

\* the most arctan(c1 + 2*c2*flight_length) can differ from arctan(c1), in
\* degrees: arctan changes no faster than its argument.  It is 0 at
\* flight_length = 0 and tends to 0 with flight_length.
ElevationDrift ==
  Degrees(FMul(FInt(2), FMul(FAbs(locals.eqn[3]), args.flight_length)))

\* C5 as stated: for all initial_trajectory and all speed, the elevation at
\* flight_length = 0 equals initial_trajectory.
C5_AsStated ==
  Done("elevation") /\ IsZero(args.flight_length)
    => result.status = "value" /\ Near(result.val, initial_trajectory, Tiny)

\* C5: for -90 < initial_trajectory < 90 and speed > 0 the elevation is within
\* ElevationDrift (and the rounding, 1e-9) of initial_trajectory, so it tends
\* to initial_trajectory as flight_length tends to 0 and equals it at
\* flight_length = 0.
C5_ElevationAtOrigin ==
  Done("elevation") /\ PositiveSpeed /\ FLt(FAbs(initial_trajectory), FInt(90))
    => /\ result.status = "value"
       /\ Near(result.val, initial_trajectory, FAdd(ElevationDrift, Tiny))

C5_Witness ==
  /\ Done("elevation") /\ PositiveSpeed /\ initial_trajectory = FInt(-5)
  /\ IsZero(args.flight_length) /\ IsZero(ElevationDrift)
  /\ Near(result.val, initial_trajectory, Tiny)

\* C8: for speed > 0 and 0 < initial_trajectory < 90, elevation is a
\* non-increasing function of flight_length: a call with a larger
\* flight_length than the call before it returns no larger an elevation.
C8_Monotone ==
  /\ Done("elevation") /\ prev.fn = "elevation" /\ PositiveSpeed
  /\ FLt(Zero, initial_trajectory) /\ FLt(initial_trajectory, FInt(90))
  /\ FLe(prev.args.flight_length, args.flight_length)
  => /\ result.status = "value" /\ prev.result.status = "value"
     /\ FLe(result.val, prev.result.val)

C8_Witness ==
  /\ Done("elevation") /\ prev.fn = "elevation" /\ PositiveSpeed
  /\ initial_trajectory = FInt(2)
  /\ FLt(prev.args.flight_length, args.flight_length)
  /\ FLt(result.val, prev.result.val)

\* C3: find_trajectory returns only an iterate p that met newton's tolerance
\* (p is within tol of the iterate before it) inside the iteration budget, or
\* it raises: when the budget is used up the call ends with RuntimeError and
\* no value.
C3_ConvergedOrRaised ==
  Done("find_trajectory")
    => /\ result.status \in {"value", "error"}
       /\ result.status = "value"
            => /\ locals.itr < MaxIter
               /\ result.val = locals.p
               /\ IsClose(locals.p, locals.p1)
       /\ locals.itr = MaxIter => result = Raise("RuntimeError")

C3_Witness ==
  /\ Done("find_trajectory") /\ locals.itr = MaxIter
  /\ ~IsClose(locals.p, locals.p0)
  /\ result = Raise("RuntimeError")

\* the inputs of the round trip: trajectory0 in [-5, 5] degrees, flight_length
\* in [0.1, 10] m and speed in [100, 1000] m/s
RoundTripDomain ==
  /\ FLe(FInt(-5), initial_trajectory) /\ FLe(initial_trajectory, FInt(5))
  /\ FLe(FRat(1, 10), args.flight_length) /\ FLe(args.flight_length, FInt(10))
  /\ FLe(FInt(100), speed) /\ FLe(speed, FInt(1000))

\* find_trajectory was called with the theta of the y_deflection before it
IsRoundTrip ==
  /\ Done("find_trajectory") /\ prev.fn = "y_deflection"
  /\ prev.args.flight_length = args.flight_length

\* C4: for trajectory0, flight_length and speed in RoundTripDomain, with
\* y = y_deflection(trajectory0, flight_length, speed) and
\* theta = degrees(arctan(y / flight_length)),
\* find_trajectory(theta, flight_length, speed) returns a value within 1e-6 of
\* trajectory0.
C4_RoundTrip ==
  IsRoundTrip /\ RoundTripDomain
    => result.status = "value" /\ Near(result.val, initial_trajectory, Micro)

C4_Witness ==
  /\ IsRoundTrip /\ RoundTripDomain
  /\ initial_trajectory = FInt(5) /\ speed = FInt(100)
  /\ args.flight_length = FInt(10)
  /\ locals.itr > 0
  /\ Near(result.val, initial_trajectory, Micro)

\* the discriminant of the quadratic c[3]*x^2 + c[2]*x + c[1]
Discriminant(c) == FSub(FMul(c[2], c[2]), FMul(FInt(4), FMul(c[3], c[1])))

Intersected == Done("parabola_line_intersection_point")

IsReal(v) == ~IsComplex(v) /\ IsNum(v)

\* C1: whenever the quadratic c2*x^2 + (c1 - b1)*x + (c0 - a1) = 0 (of finite
\* coefficients, speed > 0) has a negative discriminant,
\* parabola_line_intersection_point raises an error and returns no
\* (x, y, distance).
C1_NoRealRootRaises ==
  /\ Intersected /\ PositiveSpeed
  /\ IsNum(locals.coef[3]) /\ FLt(Discriminant(locals.coef), Zero)
  => result.status = "error"

\* the quadratic at x, its derivative there, and the size of its terms
Quadratic(c, x) == FAdd(c[1], FMul(x, FAdd(c[2], FMul(x, c[3]))))

QuadraticSlope(c, x) == FAdd(c[2], FMul(FInt(2), FMul(x, c[3])))

QuadraticSize(c, x) ==
  FAdd(FAbs(c[1]), FAdd(FAbs(FMul(x, c[2])), FAbs(FMul(x, FMul(x, c[3])))))

\* x is the larger real root of the quadratic c, whose leading coefficient is
\* negative: the quadratic is 0 at x (to 1e-9 + 1e-6 of the size of its
\* terms) and is not increasing there (at the smaller root it increases)
IsMaxRoot(c, x) ==
  /\ Near(Quadratic(c, x), Zero, FAdd(Tiny, FMul(Micro, QuadraticSize(c, x))))
  /\ FLe(QuadraticSlope(c, x),
         FMul(Micro, FAdd(FAbs(c[2]), FAbs(FMul(x, c[3])))))

\* C2: for speed > 0 and a quadratic with real roots, the x returned is the
\* maximum real root (the root itself when it is double), and the y returned
\* is a1 + b1*x, a point of the line and of the parabola.
C2_MaxRealRoot ==
  Intersected /\ PositiveSpeed /\ FLe(Zero, Discriminant(locals.coef))
    => /\ result.status = "value"
       /\ LET x == result.val[1]
              y == result.val[2]
          IN  /\ IsReal(x) /\ IsReal(y)
              /\ FLt(locals.coef[3], Zero)
              /\ IsMaxRoot(locals.coef, x)
              /\ y = FAdd(locals.a1, FMul(x, locals.b1))
              /\ Near(Polyval(x, locals.eqn), y,
                      FAdd(Tiny, FMul(Micro, QuadraticSize(locals.coef, x))))

\* two distinct real roots, the larger one returned
C2_Witness ==
  /\ Intersected /\ PositiveSpeed /\ FLt(Zero, Discriminant(locals.coef))
  /\ ~IsZero(locals.a1) /\ ~IsZero(locals.b1)
  /\ result.status = "value" /\ IsReal(result.val[1])
  /\ FLt(QuadraticSlope(locals.coef, result.val[1]), FNeg(Micro))
  /\ IsMaxRoot(locals.coef, result.val[1])

\* a horizontal launch and the horizontal line through the origin
Colinear ==
  /\ IsZero(initial_trajectory) /\ IsZero(args.theta) /\ IsZero(args.omega)

\* C9: for every speed > 0 and every flight_length,
\* parabola_line_intersection_point(0, speed, 0, flight_length, 0) returns
\* x == 0 and y == 0 without error.
C9_Colinear ==
  Intersected /\ PositiveSpeed /\ Colinear
    => /\ result.status = "value"
       /\ result.val[1] = Zero /\ result.val[2] = Zero

C9_Witness ==
  /\ Intersected /\ PositiveSpeed /\ Colinear
  /\ args.flight_length = FInt(10)
  /\ IsZero(locals.coef[1]) /\ IsZero(locals.coef[2]) /\ ~IsZero(locals.coef[3])
  /\ result.status = "value" /\ result.val[1] = Zero /\ result.val[2] = Zero

\* the parabola passes exactly through the reference point
\* (flight_length, flight_length * tan(theta))
PassesThrough ==
  /\ Len(locals.eqn) = 3
  /\ Polyval(args.flight_length, locals.eqn)
       = FMul(args.flight_length, Tan(Radians(args.theta)))

\* the slope of the parabola at the reference point: c1 + 2*c2*flight_length
SlopeAtReference ==
  FAdd(locals.eqn[2], FMul(FInt(2), FMul(locals.eqn[3], args.flight_length)))

\* the call is for the reference point that y_deflection has just returned:
\* the parabola passes through it to the rounding of theta
OnPath ==
  /\ Intersected /\ prev.fn = "y_deflection"
  /\ prev.args.flight_length = args.flight_length

\* C10: for speed > 0 and a parabola that passes exactly through the reference
\* point, x = flight_length and distance = 0 are returned if and only if
\* tan(omega) >= c1 + 2*c2*flight_length; otherwise the other crossing is
\* returned, with x > flight_length and distance > 0.  For a reference point
\* taken from y_deflection, which the parabola passes through only to the
\* rounding, x = flight_length and distance = 0 hold to the rounding (1e-9)
\* over the difference of the two slopes.
C10_ReferencePoint ==
  Intersected /\ PositiveSpeed /\ (PassesThrough \/ OnPath)
    => /\ result.status = "value"
       /\ LET x        == result.val[1]
              distance == result.val[3]
              steeper  == FSub(locals.b1, SlopeAtReference)
          IN  /\ IsReal(x) /\ IsReal(distance)
              /\ PassesThrough
                   => IF FLe(Zero, steeper)
                      THEN x = args.flight_length /\ distance = Zero
                      ELSE FLt(args.flight_length, x) /\ FLt(Zero, distance)
              /\ OnPath /\ FLe(Tiny, steeper)
                   => /\ FLe(FMul(FAbs(FSub(x, args.flight_length)), steeper), Tiny)
                      /\ FLe(FMul(distance, steeper), FAdd(Tiny, Tiny))
              /\ OnPath /\ FLe(steeper, FNeg(Tiny))
                   => FLt(args.flight_length, x) /\ FLt(Zero, distance)

\* a line less steep than the parabola at the reference point: the other
\* crossing is returned
C10_Witness ==
  /\ OnPath /\ PositiveSpeed /\ args.flight_length = FInt(2)
  /\ FLt(locals.b1, SlopeAtReference)
  /\ result.status = "value"
  /\ FLt(args.flight_length, result.val[1]) /\ FLt(Zero, result.val[3])

=============================================================================
